---- MODULE Spec2Model ----
(***************************************************************************)
(* Model of back-end/server.py: the Flask view sse() answers each request  *)
(* with a streaming Response whose body is the generator generate_events() *)
(* and registers on_close() with response.call_on_close.                   *)
(*                                                                         *)
(* The WSGI server drives the response of each connection in its own       *)
(* thread: it calls next() on the generator, writes the yielded chunk to   *)
(* the socket, and calls next() again; time.sleep(1) runs inside the       *)
(* generator, between two yields.  When the body is exhausted, or a write  *)
(* fails because the peer is gone, the server closes the response:         *)
(* Response.close() first closes the generator (which raises GeneratorExit *)
(* at the yield the generator is suspended at, if it is suspended at one)  *)
(* and then runs the call_on_close callbacks.  A response whose body the   *)
(* server never iterates (a HEAD request on the route) is closed with the  *)
(* generator still unstarted.                                              *)
(*                                                                         *)
(* Of a frame the model keeps the id line and the "count" field of the     *)
(* payload.  The "time" field is a formatted wall-clock string that no     *)
(* property below reads.  The "random" field is the value random.random()  *)
(* returns at that yield: the new state of the process-wide generator,     *)
(* rng' in the step that yields the frame.                                 *)
(***************************************************************************)
EXTENDS Integers, Sequences, FiniteSets, TLC

\* Number of simultaneous connections explored.
NConn == 2

\* Number of states of the abstract process-wide pseudo-random generator.
RngMod == 2

\* Variants of the loop bounds: a loop that starts one late, a loop that runs
\* one pass too many.
RangeStartLate == 1 + 1
RangeStopLong == 11 + 1

\* range(1, 11): first value and exclusive stop of the loop variable i.
RangeStart == 1
RangeStop == 11

Conns == 1..NConn

NoChunk == [id |-> 0, count |-> 0]

VARIABLES
    pc,         \* pc[c]: where connection c's handler is
    i,          \* i[c]: the loop variable of c's generator (0: not yet bound)
    chunk,      \* chunk[c]: event_data yielded to the server and not yet written
    emitted,    \* emitted[c]: the frames c's generator has yielded, in order
    written,    \* written[c]: ids of the frames written to c's socket, in order
    peer,       \* peer[c]: "connected" or "gone"
    log,        \* log[c]: the lifecycle messages printed for c, in order
    suspends,   \* suspends[c]: number of time.sleep(1) calls that have returned
    goneAt,     \* goneAt[c]: frames c's peer had received when it left (-1: still there)
    lateSleeps, \* lateSleeps[c]: sleeps that returned after c's peer was gone
    rng         \* state of the process-wide generator of module random: its
                \* position on the state cycle, counted from the seeded state

vars == <<pc, i, chunk, emitted, written, peer, goneAt, log, suspends, lateSleeps, rng>>

\* One call of random.random(): the process-wide generator moves to its next
\* state and returns it, as the numerator of a fraction of RngMod in [0, 1).
RngStep(s) == (s + 1) % RngMod

RECURSIVE RngAfter(_, _)
RngAfter(s, n) == IF n = 0 THEN s ELSE RngAfter(RngStep(s), n - 1)

\* Variant of EventData: a payload that counts from zero.
EventDataZeroBased(n) == [id |-> n, count |-> n - 1]

\* data = {"count": i, ...}; event_data = f"id: {i}\ndata: {json.dumps(data)}\n\n"
EventData(n) == [id |-> n, count |-> n]

Init ==
    /\ pc = [c \in Conns |-> "idle"]
    /\ i = [c \in Conns |-> 0]
    /\ chunk = [c \in Conns |-> NoChunk]
    /\ emitted = [c \in Conns |-> << >>]
    /\ written = [c \in Conns |-> << >>]
    /\ peer = [c \in Conns |-> "connected"]
    /\ goneAt = [c \in Conns |-> -1]
    /\ log = [c \in Conns |-> << >>]
    /\ suspends = [c \in Conns |-> 0]
    /\ lateSleeps = [c \in Conns |-> 0]
    /\ rng = 0

\* The view function: prints the open message, creates the generator and the
\* Response around it, registers on_close and returns the response.
sse(c) ==
    /\ pc[c] = "idle"
    /\ log' = [log EXCEPT ![c] = Append(@, "open")]
    /\ pc' = [pc EXCEPT ![c] = "created"]
    /\ UNCHANGED <<i, chunk, emitted, written, peer, goneAt, suspends, lateSleeps, rng>>

\* The remote end closes the connection; nothing in the handler runs.
PeerDisconnect(c) ==
    /\ pc[c] \notin {"idle", "closed"}
    /\ peer[c] = "connected"
    /\ peer' = [peer EXCEPT ![c] = "gone"]
    /\ goneAt' = [goneAt EXCEPT ![c] = Len(written[c])]
    /\ UNCHANGED <<pc, i, chunk, emitted, written, log, suspends, lateSleeps, rng>>

\* One pass of the loop body up to the yield, for loop value n.
YieldEvent(c, n) ==
    /\ rng' = RngStep(rng)
    /\ i' = [i EXCEPT ![c] = n]
    /\ chunk' = [chunk EXCEPT ![c] = EventData(n)]
    /\ emitted' = [emitted EXCEPT ![c] = Append(@, EventData(n))]
    /\ pc' = [pc EXCEPT ![c] = "yielded"]

\* The server's first next() on the generator: it runs to the first yield.
Start(c) ==
    /\ pc[c] = "created"
    /\ YieldEvent(c, RangeStart)
    /\ UNCHANGED <<written, peer, goneAt, log, suspends, lateSleeps>>

\* Variant of DisposeUnstarted: closing the unstarted generator runs the
\* except clause, as if GeneratorExit were raised inside the try block.
DisposeUnstartedLogs(c) ==
    /\ pc[c] = "created"
    /\ log' = [log EXCEPT ![c] = Append(@, "abrupt")]
    /\ pc' = [pc EXCEPT ![c] = "disposed"]
    /\ UNCHANGED <<i, chunk, emitted, written, peer, goneAt, suspends, lateSleeps, rng>>

\* The server closes a response whose body it never iterated:
\* generator.close() on an unstarted generator runs none of its body.
DisposeUnstarted(c) ==
    /\ pc[c] = "created"
    /\ pc' = [pc EXCEPT ![c] = "disposed"]
    /\ UNCHANGED <<i, chunk, emitted, written, peer, goneAt, log, suspends, lateSleeps, rng>>

\* Variant of WriteOk: a write that succeeds whether or not the peer is there.
WriteBlind(c) ==
    /\ pc[c] = "yielded"
    /\ written' = [written EXCEPT ![c] = Append(@, chunk[c].id)]
    /\ chunk' = [chunk EXCEPT ![c] = NoChunk]
    /\ pc' = [pc EXCEPT ![c] = "sleeping"]
    /\ UNCHANGED <<i, emitted, peer, goneAt, log, suspends, lateSleeps, rng>>

\* Variant of WriteOk: a loop body without time.sleep(1); the generator,
\* resumed after the write, runs straight to its next yield or to its end.
WriteOkNoSleep(c) ==
    /\ pc[c] = "yielded"
    /\ peer[c] = "connected"
    /\ written' = [written EXCEPT ![c] = Append(@, chunk[c].id)]
    /\ IF i[c] + 1 < RangeStop
          THEN /\ YieldEvent(c, i[c] + 1)
               /\ UNCHANGED <<peer, goneAt, log, suspends, lateSleeps>>
          ELSE /\ log' = [log EXCEPT ![c] = Append(@, "completed")]
               /\ chunk' = [chunk EXCEPT ![c] = NoChunk]
               /\ pc' = [pc EXCEPT ![c] = "finished"]
               /\ UNCHANGED <<i, emitted, peer, goneAt, suspends, lateSleeps, rng>>

\* Variant of WriteOk: the sleep is skipped after the last frame.
WriteOkLastNoSleep(c) ==
    /\ pc[c] = "yielded"
    /\ peer[c] = "connected"
    /\ written' = [written EXCEPT ![c] = Append(@, chunk[c].id)]
    /\ chunk' = [chunk EXCEPT ![c] = NoChunk]
    /\ IF i[c] + 1 < RangeStop
          THEN /\ pc' = [pc EXCEPT ![c] = "sleeping"]
               /\ UNCHANGED <<i, emitted, peer, goneAt, log, suspends, lateSleeps, rng>>
          ELSE /\ log' = [log EXCEPT ![c] = Append(@, "completed")]
               /\ pc' = [pc EXCEPT ![c] = "finished"]
               /\ UNCHANGED <<i, emitted, peer, goneAt, suspends, lateSleeps, rng>>

\* The server writes the yielded chunk to a live peer and calls next():
\* the generator resumes after the yield and enters time.sleep(1).
WriteOk(c) ==
    /\ pc[c] = "yielded"
    /\ peer[c] = "connected"
    /\ written' = [written EXCEPT ![c] = Append(@, chunk[c].id)]
    /\ chunk' = [chunk EXCEPT ![c] = NoChunk]
    /\ pc' = [pc EXCEPT ![c] = "sleeping"]
    /\ UNCHANGED <<i, emitted, peer, goneAt, log, suspends, lateSleeps, rng>>

\* Variant of WriteFail: the except clause swallows GeneratorExit in silence.
WriteFailQuiet(c) ==
    /\ pc[c] = "yielded"
    /\ peer[c] = "gone"
    /\ chunk' = [chunk EXCEPT ![c] = NoChunk]
    /\ pc' = [pc EXCEPT ![c] = "aborted"]
    /\ UNCHANGED <<i, emitted, written, peer, goneAt, log, suspends, lateSleeps, rng>>

\* Variant of WriteFail: one failed write tears down every stream that has a
\* chunk pending, as a handler keeping its streams in shared state would.
WriteFailAll(c) ==
    /\ pc[c] = "yielded"
    /\ peer[c] = "gone"
    /\ log' = [d \in Conns |-> IF pc[d] = "yielded" THEN Append(log[d], "abrupt") ELSE log[d]]
    /\ chunk' = [d \in Conns |-> IF pc[d] = "yielded" THEN NoChunk ELSE chunk[d]]
    /\ pc' = [d \in Conns |-> IF pc[d] = "yielded" THEN "aborted" ELSE pc[d]]
    /\ UNCHANGED <<i, emitted, written, peer, goneAt, suspends, lateSleeps, rng>>

\* Variant of WriteFail: the except clause prints the message and swallows
\* the exception, and the loop carries on as after a write.
WriteFailRetry(c) ==
    /\ pc[c] = "yielded"
    /\ peer[c] = "gone"
    /\ log' = [log EXCEPT ![c] = Append(@, "abrupt")]
    /\ chunk' = [chunk EXCEPT ![c] = NoChunk]
    /\ pc' = [pc EXCEPT ![c] = "sleeping"]
    /\ UNCHANGED <<i, emitted, written, peer, goneAt, suspends, lateSleeps, rng>>

\* The write fails because the peer is gone; the server closes the response,
\* generator.close() raises GeneratorExit at the yield, the except clause
\* prints the abrupt-disconnect message and re-raises.
WriteFail(c) ==
    /\ pc[c] = "yielded"
    /\ peer[c] = "gone"
    /\ log' = [log EXCEPT ![c] = Append(@, "abrupt")]
    /\ chunk' = [chunk EXCEPT ![c] = NoChunk]
    /\ pc' = [pc EXCEPT ![c] = "aborted"]
    /\ UNCHANGED <<i, emitted, written, peer, goneAt, suspends, lateSleeps, rng>>

\* Variant of Wake: a sleep that notices a peer that left and unwinds through
\* the except clause, also after the last frame.
WakeChecksPeer(c) ==
    /\ pc[c] = "sleeping"
    /\ suspends' = [suspends EXCEPT ![c] = @ + 1]
    /\ lateSleeps' = [lateSleeps EXCEPT ![c] = IF peer[c] = "gone" THEN @ + 1 ELSE @]
    /\ IF peer[c] = "gone"
          THEN /\ log' = [log EXCEPT ![c] = Append(@, "abrupt")]
               /\ pc' = [pc EXCEPT ![c] = "aborted"]
               /\ UNCHANGED <<i, chunk, emitted, written, peer, goneAt, rng>>
          ELSE IF i[c] + 1 < RangeStop
                  THEN /\ YieldEvent(c, i[c] + 1)
                       /\ UNCHANGED <<written, peer, goneAt, log>>
                  ELSE /\ log' = [log EXCEPT ![c] = Append(@, "completed")]
                       /\ pc' = [pc EXCEPT ![c] = "finished"]
                       /\ UNCHANGED <<i, chunk, emitted, written, peer, goneAt, rng>>

\* Variant of Wake: the loop ends without the completion message.
WakeSilent(c) ==
    /\ pc[c] = "sleeping"
    /\ suspends' = [suspends EXCEPT ![c] = @ + 1]
    /\ lateSleeps' = [lateSleeps EXCEPT ![c] = IF peer[c] = "gone" THEN @ + 1 ELSE @]
    /\ IF i[c] + 1 < RangeStop
          THEN /\ YieldEvent(c, i[c] + 1)
               /\ UNCHANGED <<written, peer, goneAt, log>>
          ELSE /\ pc' = [pc EXCEPT ![c] = "finished"]
               /\ UNCHANGED <<i, chunk, emitted, written, peer, goneAt, log, rng>>

\* time.sleep(1) returns; the loop either binds the next i and runs to the
\* next yield, or is exhausted: the completion message is printed and the
\* generator returns.
Wake(c) ==
    /\ pc[c] = "sleeping"
    /\ suspends' = [suspends EXCEPT ![c] = @ + 1]
    /\ lateSleeps' = [lateSleeps EXCEPT ![c] = IF peer[c] = "gone" THEN @ + 1 ELSE @]
    /\ IF i[c] + 1 < RangeStop
          THEN /\ YieldEvent(c, i[c] + 1)
               /\ UNCHANGED <<written, peer, goneAt, log>>
          ELSE /\ log' = [log EXCEPT ![c] = Append(@, "completed")]
               /\ pc' = [pc EXCEPT ![c] = "finished"]
               /\ UNCHANGED <<i, chunk, emitted, written, peer, goneAt, rng>>

\* Variant of on_close: a callback that only runs when the stream ended
\* normally, as if the propagated exception skipped it.
on_closeNormalOnly(c) ==
    /\ pc[c] \in {"finished", "disposed"}
    /\ log' = [log EXCEPT ![c] = Append(@, "closed")]
    /\ pc' = [pc EXCEPT ![c] = "closed"]
    /\ UNCHANGED <<i, chunk, emitted, written, peer, goneAt, suspends, lateSleeps, rng>>

\* Variant of on_close: a callback that can run again on a closed response.
on_closeAgain(c) ==
    /\ pc[c] \in {"finished", "aborted", "disposed", "closed"}
    /\ log' = [log EXCEPT ![c] = Append(@, "closed")]
    /\ pc' = [pc EXCEPT ![c] = "closed"]
    /\ UNCHANGED <<i, chunk, emitted, written, peer, goneAt, suspends, lateSleeps, rng>>

\* The call_on_close callback, run by Response.close() after the generator
\* has been closed (a no-op on a generator that has finished).
on_close(c) ==
    /\ pc[c] \in {"finished", "aborted", "disposed"}
    /\ log' = [log EXCEPT ![c] = Append(@, "closed")]
    /\ pc' = [pc EXCEPT ![c] = "closed"]
    /\ UNCHANGED <<i, chunk, emitted, written, peer, goneAt, suspends, lateSleeps, rng>>

Next ==
    \E c \in Conns :
        \/ sse(c)
        \/ PeerDisconnect(c)
        \/ Start(c)
        \/ DisposeUnstarted(c)
        \/ WriteOk(c)
        \/ WriteFail(c)
        \/ Wake(c)
        \/ on_close(c)

Spec == Init /\ [][Next]_vars

\* The steps the server thread of connection c takes on its own: next() on
\* the generator, the write of a chunk, the return of a sleep, the close of
\* the response.  Accepting a request and the peer leaving are the
\* environment's.
ServerStep(c) ==
    \/ Start(c)
    \/ DisposeUnstarted(c)
    \/ WriteOk(c)
    \/ WriteFail(c)
    \/ Wake(c)
    \/ on_close(c)

\* Each connection has its own thread, which takes its next step whenever
\* one stays possible: a sleep returns, a write returns or fails.
FairSpec == Spec /\ \A c \in Conns : WF_vars(ServerStep(c))

(***************************************************************************)
(* Vocabulary of the properties.                                           *)
(***************************************************************************)

\* Number of times message m has been printed for connection c.
Count(c, m) == Cardinality({k \in 1..Len(log[c]) : log[c][k] = m})

Logged(c, m) == Count(c, m) > 0

\* The ids of the frames c's generator has yielded, in order.
EmittedIds(c) == [k \in 1..Len(emitted[c]) |-> emitted[c][k].id]

\* The sequence 1, 2, ..., n.
UpTo(n) == [k \in 1..n |-> k]

\* The server has iterated c's response body: the generator was started.
Started(c) == Len(emitted[c]) > 0

(***************************************************************************)
(* C1: on every connection for which the completion message has been       *)
(* printed, exactly 10 frames were yielded and written, with ids           *)
(* 1, 2, ..., 10 in that order.                                            *)
(***************************************************************************)
C1_CompletedHasTen ==
    \A c \in Conns :
        Logged(c, "completed") =>
            /\ EmittedIds(c) = UpTo(10)
            /\ written[c] = UpTo(10)

C1_Witness ==
    \E c \in Conns : Logged(c, "completed") /\ Len(written[c]) = 10

(***************************************************************************)
(* C2: in every reachable state and on every connection, the frames        *)
(* yielded so far carry the ids 1..k for some k in 0..10, and so do the    *)
(* frames written so far: contiguous, increasing, from 1, never an 11th.   *)
(***************************************************************************)
C2_EmittedIsPrefix ==
    \A c \in Conns :
        /\ Len(emitted[c]) \in 0..10
        /\ EmittedIds(c) = UpTo(Len(emitted[c]))
        /\ Len(written[c]) \in 0..10
        /\ written[c] = UpTo(Len(written[c]))

\* One connection has yielded all ten frames while another, whose peer
\* left, was cut short in the middle of the stream.
C2_Witness ==
    \E c, d \in Conns :
        /\ Len(emitted[c]) = 10
        /\ pc[d] = "closed" /\ peer[d] = "gone"
        /\ Len(emitted[d]) \in 2..9

(***************************************************************************)
(* C3: on a connection whose stream the server iterates and whose peer     *)
(* leaves after receiving k < 10 frames, once the response is closed the   *)
(* abrupt-disconnect message has been printed exactly once, the close      *)
(* message exactly once, the completion message never, and no frame after  *)
(* the k-th has been written: frame k+1 is never sent.  At no moment has   *)
(* a frame beyond the k-th been written to a peer that left after k.       *)
(***************************************************************************)
C3_EarlyTermination ==
    \A c \in Conns :
        (Started(c) /\ peer[c] = "gone" /\ goneAt[c] < 10) =>
            /\ written[c] = UpTo(goneAt[c])
            /\ pc[c] = "closed" =>
                /\ Count(c, "abrupt") = 1
                /\ Count(c, "closed") = 1
                /\ Count(c, "completed") = 0

\* The spec's case: the peer left after 3 frames, frame 4 was yielded and
\* not written, and the response is closed.
C3_Witness ==
    \E c \in Conns :
        /\ pc[c] = "closed" /\ peer[c] = "gone" /\ goneAt[c] = 3
        /\ Len(emitted[c]) = 4 /\ Len(written[c]) = 3

(***************************************************************************)
(* C4: on a connection whose stream the server iterates and whose peer     *)
(* stays connected until the response is closed, the completion message    *)
(* is printed exactly once, the close message exactly once, the            *)
(* abrupt-disconnect message never, and when the close message is printed  *)
(* 10 frames have been written.                                            *)
(***************************************************************************)
C4_NormalScenario ==
    \A c \in Conns :
        (Started(c) /\ peer[c] = "connected" /\ pc[c] = "closed") =>
            /\ Count(c, "completed") = 1
            /\ Count(c, "closed") = 1
            /\ Count(c, "abrupt") = 0
            /\ Len(written[c]) = 10

C4_Witness ==
    \E c \in Conns :
        /\ pc[c] = "closed" /\ peer[c] = "connected"
        /\ log[c] = <<"open", "completed", "closed">>

(***************************************************************************)
(* C5: on every connection and every exit path the close message is        *)
(* printed exactly once: it has been printed once when the response is     *)
(* closed, not at all before, never twice; and every exit of the stream    *)
(* (generator finished, closed at a yield, closed unstarted) leads to the  *)
(* callback.                                                               *)
(***************************************************************************)
C5_ClosedOnce ==
    \A c \in Conns :
        /\ Count(c, "closed") = (IF pc[c] = "closed" THEN 1 ELSE 0)
        /\ pc[c] \in {"finished", "aborted", "disposed"} => ENABLED on_close(c)

\* Two exit paths side by side: a stream cut by its peer, and a response
\* disposed before any frame was produced, both closed.
C5_Witness ==
    \E c, d \in Conns :
        /\ pc[c] = "closed" /\ Logged(c, "abrupt")
        /\ pc[d] = "closed" /\ ~Started(d) /\ Count(d, "closed") = 1

(***************************************************************************)
(* Lifecycle of a connection, in the terms of the state machine            *)
(* OPEN -> EMITTING -> {COMPLETED | ABORTED} -> CLOSED.                    *)
(***************************************************************************)
LifeState(c) ==
    CASE pc[c] = "idle" -> "NONE"
      [] pc[c] \in {"created", "disposed"} -> "OPEN"
      [] pc[c] \in {"yielded", "sleeping"} -> "EMITTING"
      [] pc[c] = "finished" -> "COMPLETED"
      [] pc[c] = "aborted" -> "ABORTED"
      [] pc[c] = "closed" -> "CLOSED"

C6_MachineSteps ==
    { <<"NONE", "OPEN">>, <<"OPEN", "EMITTING">>,
      <<"EMITTING", "COMPLETED">>, <<"EMITTING", "ABORTED">>,
      <<"COMPLETED", "CLOSED">>, <<"ABORTED", "CLOSED">> }

Last(q) == q[Len(q)]

\* The open message comes first, before any frame and any other message.
C6_OpenFirst(c) ==
    /\ Len(log[c]) > 0 => (log[c][1] = "open" /\ Count(c, "open") = 1)
    /\ Started(c) => Logged(c, "open")

(***************************************************************************)
(* C6, as claimed: on every connection the open message precedes every     *)
(* frame and every other message, and the close message is the last one    *)
(* and is preceded by exactly one of the completion message and the        *)
(* abrupt-disconnect message, never both and never neither.                *)
(***************************************************************************)
C6_Original ==
    \A c \in Conns :
        /\ C6_OpenFirst(c)
        /\ Logged(c, "closed") =>
            /\ Last(log[c]) = "closed"
            /\ Count(c, "completed") + Count(c, "abrupt") = 1

(***************************************************************************)
(* C6, amended: every connection follows OPEN -> EMITTING ->               *)
(* {COMPLETED | ABORTED} -> CLOSED, or goes from OPEN straight to CLOSED   *)
(* when its response is closed with the generator unstarted.  The open     *)
(* message precedes every frame and every other message; the close         *)
(* message is the last one; before it comes exactly one of the completion  *)
(* and the abrupt-disconnect message if the generator was started, and     *)
(* neither if it was not; after the close message no frame is yielded or   *)
(* written and nothing is printed for that connection.                     *)
(***************************************************************************)
C6_LogOrder(c) ==
    /\ C6_OpenFirst(c)
    /\ (Logged(c, "completed") \/ Logged(c, "abrupt")) => Started(c)
    /\ Count(c, "completed") + Count(c, "abrupt") <= 1
    /\ Logged(c, "closed") =>
        /\ Last(log[c]) = "closed"
        /\ Count(c, "completed") + Count(c, "abrupt") = (IF Started(c) THEN 1 ELSE 0)

C6_Step(c) ==
    /\ \/ LifeState(c)' = LifeState(c)
       \/ <<LifeState(c), LifeState(c)'>> \in C6_MachineSteps
       \/ /\ <<LifeState(c), LifeState(c)'>> = <<"OPEN", "CLOSED">>
          /\ ~Started(c)
    /\ LifeState(c) = "CLOSED" => UNCHANGED <<log[c], emitted[c], written[c]>>

C6_Lifecycle ==
    /\ [](\A c \in Conns : C6_LogOrder(c))
    /\ [][\A c \in Conns : C6_Step(c)]_vars

\* Both shapes of a closed connection: one aborted in mid-stream, one whose
\* response was closed unstarted.
C6_Witness ==
    \E c, d \in Conns :
        /\ log[c] = <<"open", "abrupt", "closed">> /\ Len(written[c]) \in 1..9
        /\ log[d] = <<"open", "closed">>

(***************************************************************************)
(* C7: whenever all 10 frames have been written on a connection, the       *)
(* abrupt-disconnect message is never printed for it, the generator goes   *)
(* on to print the completion message, and when the response is closed     *)
(* the completion message has been printed before the close message.       *)
(***************************************************************************)
C7_AllSentCompletes ==
    \A c \in Conns :
        Len(written[c]) = 10 =>
            /\ ~Logged(c, "abrupt")
            /\ pc[c] \in {"sleeping", "finished", "closed"}
            /\ pc[c] = "sleeping" => ENABLED Wake(c)
            /\ pc[c] = "finished" => log[c] = <<"open", "completed">>
            /\ pc[c] = "closed" => log[c] = <<"open", "completed", "closed">>

\* All ten frames written, the peer left during the last sleep, and the
\* stream still completed and closed.
C7_Witness ==
    \E c \in Conns :
        /\ Len(written[c]) = 10 /\ peer[c] = "gone" /\ pc[c] = "closed"
        /\ Logged(c, "completed")

(***************************************************************************)
(* C8: simultaneous connections share no mutable state: each has its own   *)
(* sequence counter and its own random source, so the n-th frame of a      *)
(* connection carries the sequence number n and the random value that the  *)
(* connection's own n-th draw gives, whatever the other connections do.    *)
(***************************************************************************)
C8_Yields(c) == Len(emitted[c])' = Len(emitted[c]) + 1

C8_NoSharedState ==
    [][\A c \in Conns :
          C8_Yields(c) =>
              /\ Last(emitted[c]').count = Len(emitted[c]) + 1
              /\ rng' = RngAfter(0, Len(emitted[c]) + 1)]_vars

(***************************************************************************)
(* C9: a failed write (abort), a close step or a peer disconnect on one    *)
(* connection leaves the state of every other connection and the           *)
(* process-wide state unchanged; and beside a connection that was          *)
(* aborted, every other iterated connection whose peer stays is never      *)
(* blocked and closes with frames 1..10 and the completion message.        *)
(***************************************************************************)
ConnState(d) ==
    <<pc[d], i[d], chunk[d], emitted[d], written[d], peer[d], goneAt[d],
      log[d], suspends[d], lateSleeps[d]>>

C9_Frame(c) ==
    (WriteFail(c) \/ on_close(c) \/ PeerDisconnect(c)) =>
        /\ rng' = rng
        /\ \A d \in Conns \ {c} : ConnState(d)' = ConnState(d)

C9_OthersComplete(c) ==
    Logged(c, "abrupt") =>
        \A d \in Conns \ {c} :
            /\ pc[d] = "created" => ENABLED Start(d)
            /\ pc[d] = "sleeping" => ENABLED Wake(d)
            /\ (pc[d] = "yielded" /\ peer[d] = "connected") => ENABLED WriteOk(d)
            /\ pc[d] = "finished" => ENABLED on_close(d)
            /\ (pc[d] = "closed" /\ Started(d) /\ peer[d] = "connected") =>
                   (written[d] = UpTo(10) /\ Logged(d, "completed"))

C9_FailureIsolation ==
    /\ [](\A c \in Conns : C9_OthersComplete(c))
    /\ [][\A c \in Conns : C9_Frame(c)]_vars

\* One connection aborted and closed, the other then ran to completion.
C9_Witness ==
    \E c, d \in Conns :
        /\ c # d
        /\ log[c] = <<"open", "abrupt", "closed">>
        /\ log[d] = <<"open", "completed", "closed">> /\ written[d] = UpTo(10)

(***************************************************************************)
(* C10, as claimed: on a stream the server iterates, if the peer leaves    *)
(* at any point before the response is closed, the handler waits through   *)
(* at most one further sleep and the abrupt-disconnect message is printed. *)
(***************************************************************************)
C10_Original ==
    \A c \in Conns :
        (Started(c) /\ peer[c] = "gone") =>
            /\ lateSleeps[c] <= 1
            /\ pc[c] = "closed" => Logged(c, "abrupt")

(***************************************************************************)
(* C10, amended: on a stream the server iterates, if the peer leaves       *)
(* before the 10th frame has been written, at most one further sleep       *)
(* returns before the handler observes it: the next write fails, the       *)
(* abrupt-disconnect message is printed and the completion message is      *)
(* not; the handler is never stuck.  A peer that leaves after the 10th     *)
(* frame was written is not observed: at most one further sleep returns,   *)
(* the stream completes and no abrupt-disconnect message is printed.       *)
(***************************************************************************)
C10_PromptAbort ==
    \A c \in Conns :
        (Started(c) /\ peer[c] = "gone") =>
            /\ lateSleeps[c] <= 1
            /\ pc[c] = "sleeping" => (lateSleeps[c] = 0 /\ ENABLED Wake(c))
            /\ pc[c] = "yielded" => ENABLED WriteFail(c)
            /\ goneAt[c] < 10 =>
                /\ pc[c] \in {"yielded", "sleeping", "aborted", "closed"}
                /\ pc[c] \in {"aborted", "closed"} =>
                       (Logged(c, "abrupt") /\ ~Logged(c, "completed"))
            /\ goneAt[c] = 10 =>
                /\ ~Logged(c, "abrupt")
                /\ pc[c] \in {"finished", "closed"} => Logged(c, "completed")

\* The peer left during a sleep in mid-stream; that sleep returned, the
\* next frame was yielded, its write failed and the message was printed.
C10_Witness ==
    \E c \in Conns :
        /\ peer[c] = "gone" /\ goneAt[c] \in 1..9 /\ lateSleeps[c] = 1
        /\ pc[c] = "aborted" /\ Logged(c, "abrupt")

(***************************************************************************)
(* C11: a peer disconnect is terminal and handled without retry: once the  *)
(* abrupt-disconnect message has been printed for a connection it has      *)
(* been printed exactly once, the frame whose write failed is the last     *)
(* one produced and is dropped, no frame beyond those the peer received    *)
(* is written, the generator has ended there (the exception is re-raised,  *)
(* not swallowed: no completion message, no further pass of the loop),     *)
(* and the only step left is the close callback, which leads to CLOSED.    *)
(***************************************************************************)
C11_DisconnectTerminal ==
    \A c \in Conns :
        Logged(c, "abrupt") =>
            /\ Count(c, "abrupt") = 1
            /\ ~Logged(c, "completed")
            /\ Len(emitted[c]) = goneAt[c] + 1
            /\ written[c] = UpTo(goneAt[c])
            /\ chunk[c] = NoChunk
            /\ suspends[c] = goneAt[c]
            /\ pc[c] \in {"aborted", "closed"}
            /\ pc[c] = "aborted" =>
                   (log[c] = <<"open", "abrupt">> /\ ENABLED on_close(c))
            /\ pc[c] = "closed" => log[c] = <<"open", "abrupt", "closed">>

\* A stream aborted at its 5th frame has gone on to CLOSED.
C11_Witness ==
    \E c \in Conns :
        /\ log[c] = <<"open", "abrupt", "closed">>
        /\ Len(emitted[c]) = 5 /\ Len(written[c]) = 4

(***************************************************************************)
(* C12: on the logical clock of a connection that advances by 1 each time  *)
(* a sleep returns (suspends), frame 1 is yielded at clock 0 with no       *)
(* sleep before it, and for every k in 1..9 frame k+1 is yielded in the    *)
(* step in which the sleep after frame k returns, with frame k already     *)
(* written: frame n is yielded at clock n-1, so the emission clocks of     *)
(* frame k and frame k+1 differ by at least 1.                             *)
(***************************************************************************)
C12_Clock(c) ==
    /\ ~Started(c) => suspends[c] = 0
    /\ pc[c] = "yielded" =>
           (Len(emitted[c]) = suspends[c] + 1 /\ Len(written[c]) = suspends[c])
    /\ pc[c] = "sleeping" =>
           (Len(emitted[c]) = suspends[c] + 1 /\ Len(written[c]) = suspends[c] + 1)

C12_YieldStep(c) ==
    C8_Yields(c) =>
        \/ /\ Len(emitted[c]) = 0
           /\ suspends[c]' = 0
        \/ /\ Len(emitted[c]) \in 1..9
           /\ written[c] = UpTo(Len(emitted[c]))
           /\ suspends[c]' = suspends[c] + 1
           /\ suspends[c]' = Len(emitted[c])

C12_Pacing ==
    /\ [](\A c \in Conns : C12_Clock(c))
    /\ [][\A c \in Conns : C12_YieldStep(c)]_vars

\* Frame 7 pending at clock 6, after six writes.
C12_Witness ==
    \E c \in Conns :
        /\ pc[c] = "yielded" /\ Len(emitted[c]) = 7
        /\ suspends[c] = 6 /\ Len(written[c]) = 6

(***************************************************************************)
(* C13: in every frame yielded, the resumption id of the id line equals    *)
(* the "count" field of the payload, and both equal the position of the    *)
(* frame in the connection's stream: the n-th frame carries id n and       *)
(* count n.  The same holds of the chunk the server is about to write.     *)
(***************************************************************************)
C13_IdIsCountIsPosition ==
    \A c \in Conns :
        /\ \A n \in 1..Len(emitted[c]) :
               /\ emitted[c][n].id = emitted[c][n].count
               /\ emitted[c][n].id = n
        /\ pc[c] = "yielded" =>
               /\ chunk[c].id = chunk[c].count
               /\ chunk[c].id = Len(emitted[c])
               /\ chunk[c].id = Len(written[c]) + 1

\* Two streams at different positions, each with its own pending frame.
C13_Witness ==
    \E c, d \in Conns :
        /\ pc[c] = "yielded" /\ chunk[c].id = 10 /\ chunk[c].count = 10
        /\ pc[d] = "yielded" /\ chunk[d].id = 3 /\ chunk[d].count = 3

(***************************************************************************)
(* C14: under weak fairness of the server's steps every accepted           *)
(* connection eventually reaches CLOSED, whether or not its peer leaves;   *)
(* the stream is bounded: at most 10 frames are yielded and at most 10     *)
(* sleeps return on a connection.                                          *)
(***************************************************************************)
C14_Bounded(c) ==
    /\ Len(emitted[c]) <= 10
    /\ suspends[c] <= 10

\* An accepted connection never becomes unaccepted again, so a connection
\* that ends up for good either never accepted or closed has, if it was
\* accepted, reached CLOSED.
C14_EventuallyClosed ==
    /\ [](\A c \in Conns : C14_Bounded(c))
    /\ [][\A c \in Conns : pc[c] # "idle" => pc[c]' # "idle"]_vars
    /\ <>[](\A c \in Conns : pc[c] \in {"idle", "closed"})

\* Every connection is closed: one after its ten frames and ten sleeps,
\* another after its peer left.
C14_Witness ==
    /\ \A c \in Conns : pc[c] = "closed"
    /\ \E c \in Conns : Len(emitted[c]) = 10 /\ suspends[c] = 10
    /\ \E c \in Conns : peer[c] = "gone" /\ Logged(c, "abrupt")

(***************************************************************************)
(* C15: the abrupt-disconnect message is printed exactly in the steps in   *)
(* which the generator is closed while suspended at a yield: it has        *)
(* yielded frame k for some k in 1..10, that frame is still the pending    *)
(* chunk, and the generator has not been resumed.  Closing a generator     *)
(* that was never started, and closing one that has run to its end, print  *)
(* neither the abrupt-disconnect nor the completion message.               *)
(***************************************************************************)
C15_PrintsAbrupt(c) == Count(c, "abrupt")' = Count(c, "abrupt") + 1

C15_ClosedAtYield(c) ==
    /\ pc[c] = "yielded" /\ pc[c]' = "aborted"
    /\ Len(emitted[c]) \in 1..10
    /\ chunk[c] = Last(emitted[c])
    /\ Len(written[c]) = Len(emitted[c]) - 1

C15_ClosedUnstarted(c) == pc[c] = "created" /\ pc[c]' = "disposed"

C15_ClosedFinished(c) == pc[c] = "finished" /\ pc[c]' = "closed"

C15_Step(c) ==
    /\ C15_PrintsAbrupt(c) <=> C15_ClosedAtYield(c)
    /\ ~C15_PrintsAbrupt(c) => Count(c, "abrupt")' = Count(c, "abrupt")
    /\ (pc[c] = "yielded" /\ pc[c]' # "yielded") =>
           (C15_ClosedAtYield(c) \/ pc[c]' = "sleeping")
    /\ (C15_ClosedUnstarted(c) \/ C15_ClosedFinished(c)) =>
           /\ Count(c, "abrupt")' = Count(c, "abrupt")
           /\ Count(c, "completed")' = Count(c, "completed")

C15_AbruptOnlyAtYield ==
    [][\A c \in Conns : C15_Step(c)]_vars

\* Two of the ways a generator is closed, side by side: one
\* closed at the yield of its 10th frame, one closed unstarted.
C15_Witness ==
    \E c, d \in Conns :
        /\ pc[c] = "aborted" /\ Len(emitted[c]) = 10 /\ Logged(c, "abrupt")
        /\ pc[d] = "disposed" /\ log[d] = <<"open">>

(***************************************************************************)
(* C16: the completion message is printed only after the generator has     *)
(* been resumed past its 10th frame and the sleep that follows the 10th    *)
(* frame has returned: whenever it has been printed, 10 frames have been   *)
(* yielded and written and 10 sleeps have returned on that connection;     *)
(* while the sleep after the 10th frame is still running, and while fewer  *)
(* than 10 frames have been yielded, it has not been printed.              *)
(***************************************************************************)
C16_CompletionAfterLastSleep ==
    \A c \in Conns :
        /\ Logged(c, "completed") =>
               /\ Len(emitted[c]) = 10
               /\ Len(written[c]) = 10
               /\ suspends[c] = 10
               /\ Count(c, "completed") = 1
        /\ (Len(emitted[c]) < 10 \/ suspends[c] < 10) => ~Logged(c, "completed")
        /\ (pc[c] = "sleeping" /\ Len(written[c]) = 10) =>
               (suspends[c] = 9 /\ ~Logged(c, "completed"))

\* The generator has just returned: ten frames, ten sleeps, the completion
\* message printed and the response not yet closed.
C16_Witness ==
    \E c \in Conns :
        /\ pc[c] = "finished" /\ suspends[c] = 10
        /\ log[c] = <<"open", "completed">>

====
